---- MODULE Spec2Model ----
(***************************************************************************)
(* Anagram search (src/src/main.rs): the word fingerprint (Word), the      *)
(* sorted vocabulary (WordList::from_file), the segment iterator           *)
(* (WordListIter::next) and the pivot loop of main that fills the groups   *)
(* map.  Texts are sequences of byte values; vocabulary entries are        *)
(* referred to by their 1-based position in words (the code holds &Word).  *)
(***************************************************************************)
EXTENDS Integers, Sequences, FiniteSets, TLC

VARIABLES
    raw_lines,   \* main.rs:31   the lines read from the file, before from_file consumes them
    words,       \* main.rs:20   WordList.words, the sorted vocabulary
    idx,         \* main.rs:25   WordListIter.idx (0-based, as in the code)
    idx_end,     \* main.rs:26   WordListIter.idx_end (0-based, exclusive)
    segment,     \* main.rs:159  the Vec<Option<&Word>> being consumed
    word,        \* main.rs:162  the pivot of the current iteration
    candidates,  \* main.rs:179  positions in segment collected by the scan
    groups,      \* main.rs:154  HashMap<&String, Vec<&Word>>
    inserted,    \* main.rs:199  history: the key and the list of every groups.insert call
    yielded,     \* main.rs:72   history: the range <<idx, idx_end>> of every segment yielded
    skipped,     \* main.rs:166  history: how often pivot selection skipped an empty slot
    cmp,         \* main.rs:105  the result of the last stand-alone Word::compare
    pc           \* the program's position

vars == <<raw_lines, words, idx, idx_end, segment, word, candidates, groups,
          inserted, yielded, skipped, cmp, pc>>

(***************************************************************************)
(* Bounds of the model and the inputs drawn.                               *)
(***************************************************************************)
MaxWords == 4
MaxLen == 2

TblSize == 256
Chunks == 4
Lanes == 64
None == 0

Rep(b, n) == [i \in 1..n |-> b] \o << >>
Range(s) == {s[i] : i \in DOMAIN s}

\* Two 512-byte texts of equal length and equal byte sum whose byte counts
\* differ by multiples of 256, and a run of 256 zero bytes.
LongA == Rep(97, TblSize) \o Rep(99, TblSize)
LongB == Rep(98, 2 * TblSize)
NulRun == Rep(0, TblSize)

\* The lines a vocabulary file of the main program is drawn from.
Lexicon ==
    { << >>, <<97, 98>>, <<97, 99>>, <<99, 97>>, <<98, 98>>, LongA, LongB, NulRun }

Alphabet == {97, 98, 99}
ShortTexts == UNION { [1..n -> Alphabet] : n \in 0..MaxLen }
\* The texts the stand-alone Word operations are applied to.
WordTexts ==
    ShortTexts \cup { Rep(97, 127), Rep(97, 128), Rep(97, TblSize), Rep(98, TblSize),
                      LongA, LongB, NulRun }

(***************************************************************************)
(* Word                                                                    *)
(***************************************************************************)
\* i8 arithmetic as a build without overflow checks performs it.
WrapI8(v) == ((v + 128) % 256) - 128

\* The value of one i8 counter after `table[ch] += 1` ran over s[lo..hi];
\* the wrapping additions are grouped by halves to keep the evaluation shallow.
RECURSIVE Occurrences(_, _, _, _)
Occurrences(s, lo, hi, b) ==
    IF lo > hi THEN 0
    ELSE IF lo = hi THEN (IF s[lo] = b THEN 1 ELSE 0)
    ELSE LET mid == (lo + hi) \div 2
         IN  WrapI8(Occurrences(s, lo, mid, b) + Occurrences(s, mid + 1, hi, b))

\* Word::_char_tbl
_char_tbl(string) ==
    LET present == Range(string)
    IN  [b \in 0..(TblSize - 1) |->
            IF b \in present THEN Occurrences(string, 1, Len(string), b) ELSE 0]

\* Word::_string_sum.  The sum is an i32; a text needs more than eight
\* million bytes to overflow it, so the additions below never wrap.
RECURSIVE SumBytes(_, _, _)
SumBytes(s, lo, hi) ==
    IF lo > hi THEN 0
    ELSE IF lo = hi THEN s[lo]
    ELSE LET mid == (lo + hi) \div 2
         IN  SumBytes(s, lo, mid) + SumBytes(s, mid + 1, hi)

_string_sum(string) == SumBytes(string, 1, Len(string))

\* Word::new
New(string) ==
    [string |-> string, string_sum |-> _string_sum(string), char_tbl |-> _char_tbl(string)]

\* Word::len
WordLen(w) == Len(w.string)

\* i8x64::from_slice(&a[i*64..i*64+64]) == i8x64::from_slice(&b[i*64..i*64+64])
ChunkEq(a, b, i) == \A k \in (i * Lanes)..(i * Lanes + Lanes - 1) : a[k] = b[k]

\* Word::compare
compare(self, other) ==
    IF self.string_sum # other.string_sum THEN FALSE
    ELSE \A i \in 0..(Chunks - 1) : ChunkEq(self.char_tbl, other.char_tbl, i)

\* The exact number of occurrences of byte b in s (unbounded integers).
ExactCount(s, b) == Cardinality({i \in DOMAIN s : s[i] = b})

\* `table[ch] += 1` overflows i8 at the 128th occurrence of a byte: a build
\* with overflow checks panics there.
Overflows(string) == \E b \in Range(string) : ExactCount(string, b) > 127

\* Word::new, Word::_string_sum and the overflow test are pure functions of
\* the text: their values on the texts drawn, as explicit tables (f @@ << >>
\* is f; it makes TLC evaluate the table once instead of at every use).
Texts == Lexicon \cup WordTexts
NewOf == [t \in Texts |-> New(t)] @@ << >>
SumOf == [t \in Texts |-> _string_sum(t)] @@ << >>
OverflowsOf == [t \in Texts |-> Overflows(t)] @@ << >>

(***************************************************************************)
(* WordList                                                                *)
(***************************************************************************)
\* Ordering::cmp of two integers: -1 Less, 0 Equal, 1 Greater
CmpInt(x, y) == IF x < y THEN -1 ELSE IF x > y THEN 1 ELSE 0

\* Mutant of CompareLines: the lines are ordered by length alone.
CompareLinesByLen(a, b) == CmpInt(Len(a), Len(b))

\* The comparator closure given to raw_lines.sort_by
CompareLines(a, b) ==
    IF Len(a) = Len(b) THEN CmpInt(SumOf[a], SumOf[b])
    ELSE CmpInt(Len(a), Len(b))

\* The place of line i after the sort: behind every line that compares Less
\* and every earlier line that compares Equal (sort_by is a stable sort).
SortedPlace(lines, i) ==
    1 + Cardinality({j \in DOMAIN lines :
                        \/ CompareLines(lines[j], lines[i]) = -1
                        \/ CompareLines(lines[j], lines[i]) = 0 /\ j < i})

\* Vec::sort_by with the comparator above
SortBy(lines) ==
    [p \in DOMAIN lines |-> lines[CHOOSE i \in DOMAIN lines : SortedPlace(lines, i) = p]]

\* The vocabulary built from the sorted lines
Collect(sorted) == [i \in 1..Len(sorted) |-> NewOf[sorted[i]]]

\* WordList::from_file, in a build whose arithmetic wraps (or with no overflow)
FromFile ==
    /\ pc = "load"
    /\ words' = Collect(SortBy(raw_lines))
    /\ raw_lines' = << >>
    /\ pc' = "segments"
    /\ UNCHANGED <<idx, idx_end, segment, word, candidates, groups, inserted,
                   yielded, skipped, cmp>>

\* WordList::from_file in a build with overflow checks: Word::new panics on
\* the line whose counter overflows.
FromFilePanic ==
    /\ pc = "load"
    /\ \E i \in DOMAIN raw_lines : OverflowsOf[raw_lines[i]]
    /\ raw_lines' = << >>
    /\ pc' = "overflow_panic"
    /\ UNCHANGED <<words, idx, idx_end, segment, word, candidates, groups,
                   inserted, yielded, skipped, cmp>>

(***************************************************************************)
(* WordListIter                                                            *)
(***************************************************************************)
\* words.get(i).map(|v| v.len()), with -1 for None
GetLen(ws, i) == IF i < Len(ws) THEN WordLen(ws[i + 1]) ELSE -1

\* `let seg_word_len = self.words.get(self.idx).unwrap().len()`
SegWordLen(ws, i, e) == GetLen(ws, i)

\* Mutant of NextIdx: the cursor's start is left where it was.
NextIdxStale(i, e) == i

\* `self.idx = self.idx_end`
NextIdx(i, e) == e

\* Mutant of Advance: the run is not cut where the length changes.
AdvanceToEnd(ws, e, seg_word_len) == Len(ws)

\* `while self.words.get(self.idx_end).map(|v| v.len()) == Some(seg_word_len)`
RECURSIVE Advance(_, _, _)
Advance(ws, e, seg_word_len) ==
    IF e < Len(ws) /\ GetLen(ws, e) = seg_word_len THEN Advance(ws, e + 1, seg_word_len)
    ELSE e

\* `(self.words[self.idx..self.idx_end]).iter().map(|s| Some(s)).collect()`
Slice(i, e) == [k \in 1..(e - i) |-> i + k]

\* WordListIter::next returning Some(segment); the for loop binds it
IterNext ==
    /\ pc = "segments"
    /\ idx_end < Len(words)
    /\ LET seg_word_len == SegWordLen(words, idx, idx_end)
           i            == NextIdx(idx, idx_end)
           e            == Advance(words, idx_end, seg_word_len)
       IN  /\ idx' = i
           /\ idx_end' = e
           /\ segment' = Slice(i, e)
           /\ yielded' = Append(yielded, <<i, e>>)
    /\ pc' = "pivot"
    /\ UNCHANGED <<raw_lines, words, word, candidates, groups, inserted, skipped, cmp>>

\* WordListIter::next returning None; the for loop ends
IterEnd ==
    /\ pc = "segments"
    /\ idx_end >= Len(words)
    /\ pc' = "done"
    /\ UNCHANGED <<raw_lines, words, idx, idx_end, segment, word, candidates,
                   groups, inserted, yielded, skipped, cmp>>

(***************************************************************************)
(* main: the pivot loop                                                    *)
(***************************************************************************)
\* The 'inner loop: pop until a present slot; word = None when the segment
\* ran out.
RECURSIVE PopPivot(_)
PopPivot(seg) ==
    IF seg = << >> THEN [word |-> None, rest |-> << >>, skips |-> 0]
    ELSE LET w    == seg[Len(seg)]
             rest == SubSeq(seg, 1, Len(seg) - 1)
         IN  IF w # None THEN [word |-> w, rest |-> rest, skips |-> 0]
             ELSE LET r == PopPivot(rest) IN [r EXCEPT !.skips = @ + 1]

\* `for cndt in segment.iter_mut().rev()` from position i down: the positions
\* pushed to candidates, and whether cndt.unwrap() hit an empty slot.
RECURSIVE Scan(_, _, _, _)
Scan(ws, seg, i, sum) ==
    IF i = 0 THEN [cands |-> << >>, panic |-> FALSE]
    ELSE IF seg[i] = None THEN [cands |-> << >>, panic |-> TRUE]
    ELSE IF ws[seg[i]].string_sum = sum
         THEN LET r == Scan(ws, seg, i - 1, sum) IN [r EXCEPT !.cands = <<i>> \o @]
         ELSE [cands |-> << >>, panic |-> FALSE]

\* lines 162-186: select the pivot and collect its candidates
SelectPivot ==
    /\ pc = "pivot"
    /\ LET p == PopPivot(segment)
       IN  /\ p.word # None
           /\ LET s == Scan(words, p.rest, Len(p.rest), words[p.word].string_sum)
              IN  /\ word' = p.word
                  /\ segment' = p.rest
                  /\ skipped' = skipped + p.skips
                  /\ candidates' = s.cands
                  /\ pc' = IF s.panic THEN "unwrap_panic" ELSE "match"
    /\ UNCHANGED <<raw_lines, words, idx, idx_end, groups, inserted, yielded, cmp>>

\* line 168: segment.pop() is None, break 'outer
SegmentExhausted ==
    /\ pc = "pivot"
    /\ LET p == PopPivot(segment)
       IN  /\ p.word = None
           /\ segment' = p.rest
           /\ skipped' = skipped + p.skips
    /\ pc' = "segments"
    /\ UNCHANGED <<raw_lines, words, idx, idx_end, word, candidates, groups,
                   inserted, yielded, cmp>>

\* Mutant of Matches: the comparison loop stops at the first match.
MatchesFirst(ws, seg, cands, pivot) ==
    LET all == SelectSeq(cands, LAMBDA c : compare(ws[pivot], ws[seg[c]]))
    IN  IF all = << >> THEN << >> ELSE <<all[1]>>

\* lines 188-192: the candidates the pivot compares equal to, in scan order
Matches(ws, seg, cands, pivot) ==
    SelectSeq(cands, LAMBDA c : compare(ws[pivot], ws[seg[c]]))

\* Mutant of TakeMatched: a matched slot is read but not emptied.
TakeMatchedKeep(seg, matched) == seg

\* `candidate.take()` on every match
TakeMatched(seg, matched) ==
    [i \in DOMAIN seg |-> IF i \in Range(matched) THEN None ELSE seg[i]]

\* Mutant of DrainFilter: the filter is never run, the segment is not compacted.
DrainFilterIdle(seg) == seg

\* `segment.drain_filter(|w| w.is_none())`, dropped at once and so run to the end
DrainFilter(seg) == SelectSeq(seg, LAMBDA w : w # None)

\* `groups.insert(&word.string, anagrams)`
Insert(g, key, anagrams) ==
    [t \in DOMAIN g \cup {key} |-> IF t = key THEN anagrams ELSE g[t]]

\* lines 188-200: compare, take the matches, record the group
MatchCandidates ==
    /\ pc = "match"
    /\ LET matched  == Matches(words, segment, candidates, word)
           anagrams == [k \in 1..Len(matched) |-> segment[matched[k]]]
           taken    == TakeMatched(segment, matched)
       IN  IF anagrams # << >>
           THEN /\ segment' = DrainFilter(taken)
                /\ groups' = Insert(groups, words[word].string, anagrams)
                /\ inserted' = Append(inserted, [key |-> word, anagrams |-> anagrams])
           ELSE /\ segment' = taken
                /\ UNCHANGED <<groups, inserted>>
    /\ pc' = "pivot"
    /\ UNCHANGED <<raw_lines, words, idx, idx_end, word, candidates, yielded,
                   skipped, cmp>>

(***************************************************************************)
(* The program                                                             *)
(***************************************************************************)
Idle ==
    /\ words = << >>
    /\ idx = 0
    /\ idx_end = 0
    /\ segment = << >>
    /\ word = None
    /\ candidates = << >>
    /\ groups = << >>
    /\ inserted = << >>
    /\ yielded = << >>
    /\ skipped = 0
    /\ cmp = FALSE

Init ==
    /\ raw_lines \in UNION { [1..n -> Lexicon] : n \in 0..MaxWords }
    /\ Idle
    /\ pc = "load"

Next ==
    \/ FromFile
    \/ FromFilePanic
    \/ IterNext
    \/ IterEnd
    \/ SelectPivot
    \/ SegmentExhausted
    \/ MatchCandidates

Spec == Init /\ [][Next]_vars

\* The program is one thread that runs until it ends.
FairSpec == Spec /\ WF_vars(Next)

(***************************************************************************)
(* The Word operations on their own: two texts are built and compared.     *)
(***************************************************************************)
WordInit ==
    /\ raw_lines \in [1..2 -> WordTexts]
    /\ Idle
    /\ pc = "new"

\* Word::new on both texts, in a build whose arithmetic wraps (or with no overflow)
WordNew ==
    /\ pc = "new"
    /\ words' = [i \in 1..2 |-> NewOf[raw_lines[i]]]
    /\ pc' = "built"
    /\ UNCHANGED <<raw_lines, idx, idx_end, segment, word, candidates, groups,
                   inserted, yielded, skipped, cmp>>

\* Word::new in a build with overflow checks, on a text that overflows a counter
WordNewPanic ==
    /\ pc = "new"
    /\ \E i \in 1..2 : OverflowsOf[raw_lines[i]]
    /\ pc' = "overflow_panic"
    /\ UNCHANGED <<raw_lines, words, idx, idx_end, segment, word, candidates,
                   groups, inserted, yielded, skipped, cmp>>

\* words[1].compare(&words[2])
WordCompare ==
    /\ pc = "built"
    /\ cmp' = compare(words[1], words[2])
    /\ pc' = "compared"
    /\ UNCHANGED <<raw_lines, words, idx, idx_end, segment, word, candidates,
                   groups, inserted, yielded, skipped>>

WordNext ==
    \/ WordNew
    \/ WordNewPanic
    \/ WordCompare

WordSpec == WordInit /\ [][WordNext]_vars

(***************************************************************************)
(* Vocabulary of the properties                                            *)
(***************************************************************************)
\* The byte multiset of each text drawn: its exact count of every byte that
\* occurs in it.  Two texts have equal sorted byte sequences iff these agree.
MultisetOf == [t \in Texts |-> [b \in Range(t) |-> ExactCount(t, b)]] @@ << >>
SameMultiset(s, t) == MultisetOf[s] = MultisetOf[t]

\* Entry i has an anagram partner: another entry with the same byte multiset.
HasPartner(i) ==
    \E j \in DOMAIN words : j # i /\ SameMultiset(words[i].string, words[j].string)

\* The entry whose string the map holds as the key of text t: insert keeps
\* the key of the first insertion.
KeyEntry(t) ==
    LET first == CHOOSE k \in DOMAIN inserted :
                    /\ words[inserted[k].key].string = t
                    /\ \A j \in 1..(k - 1) : words[inserted[j].key].string # t
    IN  inserted[first].key

\* How often entry i occurs in the groups map, as a key and as a member.
KeyCount(i) == Cardinality({t \in DOMAIN groups : KeyEntry(t) = i})
MemberSlots == UNION { {<<t, k>> : k \in DOMAIN groups[t]} : t \in DOMAIN groups }
MemberCount(i) == Cardinality({m \in MemberSlots : groups[m[1]][m[2]] = i})
Appearances(i) == KeyCount(i) + MemberCount(i)

Final == {"done", "overflow_panic", "unwrap_panic"}

(***************************************************************************)
(* C1  Completeness.  Once the main loop has processed all segments, every *)
(* vocabulary entry that has another entry with the same byte multiset is  *)
(* in exactly one group (as key or member), and every entry without such a *)
(* partner appears in no group.                                            *)
(***************************************************************************)
Completeness ==
    pc = "done" =>
        \A i \in DOMAIN words : Appearances(i) = IF HasPartner(i) THEN 1 ELSE 0

(***************************************************************************)
(* C2  At-most-one membership.  In every state, each vocabulary entry      *)
(* occurs in the groups map at most once in total, counting its            *)
(* occurrences as a key and in every member list.                          *)
(***************************************************************************)
AtMostOneMembership == \A i \in DOMAIN words : Appearances(i) <= 1

\* The search ended with a group of three (a key and two members) recorded.
AtMostOneMembershipWitness ==
    /\ pc = "done"
    /\ \E t \in DOMAIN groups : Len(groups[t]) >= 2

(***************************************************************************)
(* C3  Oracle equivalence.  For two words of equal length, Word::compare   *)
(* returns true iff their sorted byte sequences are equal (byte-multiset   *)
(* equality).                                                              *)
(***************************************************************************)
OracleEquivalence ==
    (pc = "compared" /\ Len(raw_lines[1]) = Len(raw_lines[2]))
        => (cmp <=> SameMultiset(raw_lines[1], raw_lines[2]))

(***************************************************************************)
(* C4  Partition by length.  In every state of the groups map, the key of  *)
(* every group and all words of its member list have the same byte length. *)
(***************************************************************************)
PartitionByLength ==
    \A t \in DOMAIN groups :
        \A k \in DOMAIN groups[t] : WordLen(words[groups[t][k]]) = Len(t)

\* Groups of two different word lengths have been recorded.
PartitionByLengthWitness ==
    \E t1, t2 \in DOMAIN groups : Len(t1) # Len(t2)

(***************************************************************************)
(* C5  The segments yielded by successive next() calls are exactly the     *)
(* maximal runs of equal-length words, in order: each is non-empty and of  *)
(* one length, adjacent ones have different lengths, and concatenated they *)
(* are the vocabulary, with no overlap and no gap.                         *)
(***************************************************************************)
SegmentsAreMaximalRuns ==
    /\ \A k \in DOMAIN yielded :
          /\ yielded[k][1] < yielded[k][2]
          /\ \A i \in (yielded[k][1] + 1)..yielded[k][2] :
                WordLen(words[i]) = WordLen(words[yielded[k][1] + 1])
          /\ yielded[k][1] = IF k = 1 THEN 0 ELSE yielded[k - 1][2]
          /\ k > 1 => WordLen(words[yielded[k][1] + 1])
                        # WordLen(words[yielded[k - 1][1] + 1])
    /\ (pc = "done" /\ yielded # << >>) => yielded[Len(yielded)][2] = Len(words)
    /\ (pc = "done" /\ yielded = << >>) => words = << >>

(***************************************************************************)
(* C6  Word construction never fails and gives histogram[b] the exact      *)
(* number of occurrences of byte b in the text, also when a byte occurs    *)
(* 128 times or more, so two equal-length words with different byte        *)
(* multisets never get elementwise-equal histograms.                       *)
(***************************************************************************)
ExactHistogram ==
    /\ pc # "overflow_panic"
    /\ pc \in {"built", "compared"} =>
          /\ \A i \in 1..2 : \A b \in 0..(TblSize - 1) :
                words[i].char_tbl[b] = ExactCount(raw_lines[i], b)
          /\ (/\ Len(raw_lines[1]) = Len(raw_lines[2])
              /\ ~SameMultiset(raw_lines[1], raw_lines[2]))
                => words[1].char_tbl # words[2].char_tbl

\* The slots left in the segment whose checksum equals the pivot's (a full scan).
SameSumSlots ==
    {i \in DOMAIN segment :
        segment[i] # None /\ words[segment[i]].string_sum = words[word].string_sum}

(***************************************************************************)
(* C7  Early-break scan equals full scan.  For every pivot, the candidates *)
(* collected by scanning downward from the end of the remaining slots and  *)
(* stopping at the first slot with another checksum are exactly all        *)
(* remaining slots whose checksum equals the pivot's.                      *)
(***************************************************************************)
EarlyBreakIsFullScan == pc = "match" => Range(candidates) = SameSumSlots

\* An earlier pivot of this segment was dropped, and the scan for the current
\* pivot collected candidates and stopped above a slot with another checksum.
EarlyBreakWitness ==
    /\ pc = "match"
    /\ candidates # << >>
    /\ Len(candidates) < Len(segment)
    /\ inserted = << >>
    /\ (idx_end - idx) - Len(segment) >= 2

\* Words in the vocabulary (raw_lines before from_file, words after).
VocabularySize == Len(raw_lines) + Len(words)
RankBase == 2 * VocabularySize + 4
\* What the iterator has left: twice the words beyond idx_end, plus one while
\* the last segment yielded was a non-empty run.
IterRank == 2 * (VocabularySize - idx_end) + (IF idx < idx_end THEN 1 ELSE 0)
Rank ==
    CASE pc = "load"     -> (IterRank + 1) * RankBase
      [] pc = "segments" -> IterRank * RankBase + 1
      [] pc = "pivot"    -> IterRank * RankBase + 2 * Len(segment) + 2
      [] pc = "match"    -> IterRank * RankBase + 2 * Len(segment) + 3
      [] OTHER           -> 0

(***************************************************************************)
(* C8  Termination.  For every vocabulary the search ends: every step      *)
(* strictly lowers a natural-valued rank built from the iterator's cursor  *)
(* and the number of slots left in the segment (the iterator cannot yield  *)
(* forever, every pivot iteration removes a slot), and a final position is *)
(* eventually reached.                                                     *)
(***************************************************************************)
Termination ==
    /\ [][Rank' < Rank /\ Rank' >= 0]_vars
    /\ <>(pc \in Final)

\* The search ended after the iterator yielded several segments and pivots
\* were both dropped and recorded.
TerminationWitness ==
    /\ pc = "done"
    /\ Len(yielded) >= 3
    /\ inserted # << >>
    /\ Len(words) > Len(inserted) + Cardinality(MemberSlots)

(***************************************************************************)
(* C9  No removed slot is visible to pivot selection or to the scan: at    *)
(* the start of every pivot iteration every slot left in the segment is    *)
(* present, pivot selection never skips an empty slot, and no unwrap of a  *)
(* candidate slot fails.                                                   *)
(***************************************************************************)
NoEmptySlotVisible ==
    /\ pc = "pivot" => \A i \in DOMAIN segment : segment[i] # None
    /\ skipped = 0
    /\ pc # "unwrap_panic"

\* A pivot iteration starts on a segment that was compacted and has slots left.
NoEmptySlotWitness ==
    /\ pc = "pivot"
    /\ segment # << >>
    /\ inserted # << >>
    /\ inserted[Len(inserted)].key > idx

(***************************************************************************)
(* C10  Recording a group never overwrites an earlier one: no two pivots   *)
(* that recorded a group have equal text, the map has one entry per such   *)
(* pivot, and every recorded member list is still in the map.              *)
(***************************************************************************)
NoOverwrite ==
    /\ \A j, k \in DOMAIN inserted :
          j # k => words[inserted[j].key].string # words[inserted[k].key].string
    /\ Cardinality(DOMAIN groups) = Len(inserted)
    /\ \A k \in DOMAIN inserted :
          /\ words[inserted[k].key].string \in DOMAIN groups
          /\ groups[words[inserted[k].key].string] = inserted[k].anagrams

\* Two groups are recorded and one of them holds a duplicate of its key's text.
NoOverwriteWitness ==
    /\ Len(inserted) >= 2
    /\ \E k \in DOMAIN inserted : \E m \in DOMAIN inserted[k].anagrams :
          words[inserted[k].anagrams[m]].string = words[inserted[k].key].string

====
